---- MODULE Spec2Model ----
(***************************************************************************)
(* Model of the Xomware API response envelope                              *)
(* (workflows/api-response-envelope/types/api-response.py).                *)
(*                                                                         *)
(* A request handler builds one envelope (api_ok, api_error or the         *)
(* ApiResponseDC constructor), then calls to_dict / asdict on it, assigns  *)
(* to its fields, and adds or removes keys of the mappings it got back.    *)
(* Python objects with identity (the envelope, the returned dicts) live in *)
(* a heap; Python values are tagged records so that None, "", {} and 0     *)
(* stay distinct.                                                          *)
(***************************************************************************)
EXTENDS Integers, FiniteSets, Sequences, TLC

\* Number of calls a handler makes on its envelope and mappings after
\* building the envelope.
MaxCalls == 4

\* Number of ApiResponse objects a handler builds.
MaxModels == 2

----------------------------------------------------------------------------
\* Python values

PyNone == [type |-> "NoneType", repr |-> "None"]

PyTrue == [type |-> "bool", repr |-> "True"]

PyFalse == [type |-> "bool", repr |-> "False"]

PyStr(s) == [type |-> "str", repr |-> s]

PyDict(s) == [type |-> "dict", repr |-> s]

PyInt(s) == [type |-> "int", repr |-> s]

\* bool(x): Python truthiness of the values above
Truthy(x) ==
    CASE x.type = "NoneType" -> FALSE
      [] x.type = "bool" -> x = PyTrue
      [] x.type = "str" -> x.repr /= ""
      [] x.type = "dict" -> x.repr /= "{}"
      [] x.type = "int" -> x.repr /= "0"

\* The payloads a handler passes as data: None, an empty container, a user
\* record.
Payloads == {PyNone, PyDict("{}"), PyDict("{id: usr_1}")}

\* The messages a handler passes as error.
Messages == {PyStr(""), PyStr("Email is required")}

Bools == {PyTrue, PyFalse}

\* d[k] = v on a dict
SetItem(d, k, v) == [x \in (DOMAIN d) \cup {k} |-> IF x = k THEN v ELSE d[x]]

\* del d[k]
DelItem(d, k) == [x \in (DOMAIN d) \ {k} |-> d[x]]

----------------------------------------------------------------------------
\* ApiResponseDC

FieldNames == {"success", "data", "error"}

\* Mutant: a __post_init__ that makes the fields agree with the flag
ApiResponseDC_normalised(success, data, error) ==
    [success |-> success,
     data |-> IF success = PyTrue THEN data ELSE PyNone,
     error |-> IF success = PyTrue THEN PyNone ELSE error]

\* The __init__ the dataclass decorator generates: stores the three
\* arguments as given, no validation.
ApiResponseDC(success, data, error) ==
    [success |-> success, data |-> data, error |-> error]

\* Mutant: `if self.data:` / `if self.error:` instead of `is not None`
to_dict_truthy(self) ==
    LET r0 == [k \in {"success"} |-> self.success]
        r1 == IF Truthy(self.data) THEN SetItem(r0, "data", self.data) ELSE r0
        r2 == IF Truthy(self.error) THEN SetItem(r1, "error", self.error) ELSE r1
    IN  r2

\* Mutant: {k: v for k, v in fields if v}, which also drops success == False
to_dict_dropfalsy(self) ==
    [k \in {f \in FieldNames : Truthy(self[f])} |-> self[k]]

\* Mutant: data emitted only on success, error only on failure
to_dict_gated(self) ==
    LET r0 == [k \in {"success"} |-> self.success]
        r1 == IF self.success = PyTrue /\ self.data /= PyNone
              THEN SetItem(r0, "data", self.data) ELSE r0
        r2 == IF self.success /= PyTrue /\ self.error /= PyNone
              THEN SetItem(r1, "error", self.error) ELSE r1
    IN  r2

\* ApiResponseDC.to_dict
to_dict(self) ==
    LET r0 == [k \in {"success"} |-> self.success]
        r1 == IF self.data /= PyNone THEN SetItem(r0, "data", self.data) ELSE r0
        r2 == IF self.error /= PyNone THEN SetItem(r1, "error", self.error) ELSE r1
    IN  r2

\* Mutant: `data or None`
api_ok_falsy(data) ==
    ApiResponseDC(PyTrue, IF Truthy(data) THEN data ELSE PyNone, PyNone)

api_ok(data) == ApiResponseDC(PyTrue, data, PyNone)

\* Mutant: ApiResponseDC(False, message), the message passed positionally
api_error_positional(message) == ApiResponseDC(PyFalse, message, PyNone)

api_error(message) == ApiResponseDC(PyFalse, PyNone, message)

\* dataclasses.asdict on an ApiResponseDC: one key per declared field
asdict(obj) == [k \in FieldNames |-> obj[k]]

\* self.<name> = value on a dataclass that is not frozen
setattr(self, name, value) == [self EXCEPT ![name] = value]

\* Mutant: one dict object kept and handed out again
NewDict_shared(heap, m) == IF heap = <<>> THEN Append(heap, m) ELSE heap

\* result: dict = {...}: the dict display allocates a new dict object
NewDict(heap, m) == Append(heap, m)

----------------------------------------------------------------------------
\* ApiResponse (validation-library form)

\* What a handler may pass as success: the two booleans, the integers the
\* library converts to a boolean, and two values it rejects.
SuccessInputs == Bools \cup {PyInt("1"), PyInt("0"), PyNone, PyStr("maybe")}

\* success: bool on a BaseModel: the inputs the field accepts
BoolValid(x) ==
    \/ x.type = "bool"
    \/ x.type = "int" /\ x.repr \in {"0", "1"}

\* Mutant: the field stores what it is given
BoolCoerce_asgiven(x) == x

\* success: bool on a BaseModel: the stored value is always a bool
BoolCoerce(x) ==
    CASE x.type = "bool" -> x
      [] x.type = "int" -> IF x.repr = "1" THEN PyTrue ELSE PyFalse

\* cls(success=..., data=..., error=...)
ApiResponse(success, data, error) ==
    [success |-> BoolCoerce(success), data |-> data, error |-> error]

\* ApiResponse.ok
ok(data) == ApiResponse(PyTrue, data, PyNone)

\* ApiResponse.fail
fail(error) == ApiResponse(PyFalse, PyNone, error)

\* self.success is True
is_success(self) == IF self.success = PyTrue THEN PyTrue ELSE PyFalse

\* self.success is False
is_error(self) == IF self.success = PyFalse THEN PyTrue ELSE PyFalse

----------------------------------------------------------------------------
\* State

VARIABLES
    envs,    \* heap of ApiResponseDC objects (the handler holds at most one)
    built,   \* built[i]: how envs[i] was constructed: "api_ok", "api_error", "ApiResponseDC"
    dicts,   \* heap of dict objects returned to the handler
    ret,     \* the last call: its name, receiver, arguments and returned object
    calls,   \* calls made since the envelope was built
    models   \* heap of ApiResponse (validation-library form) objects

vars == <<envs, built, dicts, ret, calls, models>>

\* A finished call: val is the heap index of the object it returned (0 when it
\* returned a plain value), value the plain value, raised the exception type.
Call(op, self, args, val) ==
    [op |-> op, self |-> self, args |-> args, val |-> val, value |-> PyNone,
     raised |-> ""]

Value(op, self, value) ==
    [op |-> op, self |-> self, args |-> <<>>, val |-> 0, value |-> value,
     raised |-> ""]

Raise(op, args, exc) ==
    [op |-> op, self |-> 0, args |-> args, val |-> 0, value |-> PyNone,
     raised |-> exc]

Init ==
    /\ envs = <<>>
    /\ built = <<>>
    /\ dicts = <<>>
    /\ ret = Call("", 0, <<>>, 0)
    /\ calls = 0
    /\ models = <<>>

\* e = api_ok(v); the handler builds one envelope
ApiOk ==
    \E v \in Payloads :
        /\ envs = <<>>
        /\ envs' = Append(envs, api_ok(v))
        /\ built' = Append(built, "api_ok")
        /\ ret' = Call("api_ok", 0, <<v>>, Len(envs'))
        /\ UNCHANGED <<dicts, calls, models>>

\* e = api_error(m)
ApiError ==
    \E m \in Messages :
        /\ envs = <<>>
        /\ envs' = Append(envs, api_error(m))
        /\ built' = Append(built, "api_error")
        /\ ret' = Call("api_error", 0, <<m>>, Len(envs'))
        /\ UNCHANGED <<dicts, calls, models>>

\* e = ApiResponseDC(success=s, data=d, error=e)
Direct ==
    \E s \in Bools, d \in Payloads, e \in Messages \cup {PyNone} :
        /\ envs = <<>>
        /\ envs' = Append(envs, ApiResponseDC(s, d, e))
        /\ built' = Append(built, "ApiResponseDC")
        /\ ret' = Call("ApiResponseDC", 0, <<s, d, e>>, Len(envs'))
        /\ UNCHANGED <<dicts, calls, models>>

\* e.to_dict()
ToDict ==
    \E i \in DOMAIN envs :
        /\ calls < MaxCalls
        /\ dicts' = NewDict(dicts, to_dict(envs[i]))
        /\ ret' = Call("to_dict", i, <<>>, Len(dicts'))
        /\ calls' = calls + 1
        /\ UNCHANGED <<envs, built, models>>

\* asdict(e)
AsDict ==
    \E i \in DOMAIN envs :
        /\ calls < MaxCalls
        /\ dicts' = NewDict(dicts, asdict(envs[i]))
        /\ ret' = Call("asdict", i, <<>>, Len(dicts'))
        /\ calls' = calls + 1
        /\ UNCHANGED <<envs, built, models>>

\* e.success = s, e.data = d, e.error = m by the caller holding e
SetAttr ==
    \E i \in DOMAIN envs, name \in FieldNames :
        \E value \in (CASE name = "success" -> Bools
                        [] name = "data" -> Payloads
                        [] name = "error" -> Messages \cup {PyNone}) :
            /\ calls < MaxCalls
            /\ envs' = [envs EXCEPT ![i] = setattr(envs[i], name, value)]
            /\ ret' = Call("setattr", i, <<PyStr(name), value>>, 0)
            /\ calls' = calls + 1
            /\ UNCHANGED <<built, dicts, models>>

\* d["meta"] = None on a returned mapping
DictSetItem ==
    \E d \in DOMAIN dicts :
        /\ calls < MaxCalls
        /\ dicts' = [dicts EXCEPT ![d] = SetItem(dicts[d], "meta", PyNone)]
        /\ ret' = Call("setitem", d, <<PyStr("meta"), PyNone>>, 0)
        /\ calls' = calls + 1
        /\ UNCHANGED <<envs, built, models>>

\* del d[k] on a returned mapping
DictDelItem ==
    \E d \in DOMAIN dicts :
        \E k \in DOMAIN dicts[d] :
            /\ calls < MaxCalls
            /\ dicts' = [dicts EXCEPT ![d] = DelItem(dicts[d], k)]
            /\ ret' = Call("delitem", d, <<PyStr(k)>>, 0)
            /\ calls' = calls + 1
            /\ UNCHANGED <<envs, built, models>>

\* ApiResponse.ok(v)
ModelOk ==
    \E v \in Payloads :
        /\ Len(models) < MaxModels
        /\ models' = Append(models, ok(v))
        /\ ret' = Call("ApiResponse.ok", 0, <<v>>, Len(models'))
        /\ UNCHANGED <<envs, built, dicts, calls>>

\* ApiResponse.fail(m)
ModelFail ==
    \E m \in Messages :
        /\ Len(models) < MaxModels
        /\ models' = Append(models, fail(m))
        /\ ret' = Call("ApiResponse.fail", 0, <<m>>, Len(models'))
        /\ UNCHANGED <<envs, built, dicts, calls>>

\* ApiResponse(success=s, data=d, error=e): the library validates success
\* and raises ValidationError on a value that is no boolean
ModelDirect ==
    \E s \in SuccessInputs, d \in Payloads, e \in Messages \cup {PyNone} :
        /\ Len(models) < MaxModels
        /\ IF BoolValid(s)
           THEN /\ models' = Append(models, ApiResponse(s, d, e))
                /\ ret' = Call("ApiResponse", 0, <<s, d, e>>, Len(models'))
           ELSE /\ models' = models
                /\ ret' = Raise("ApiResponse", <<s, d, e>>, "ValidationError")
        /\ UNCHANGED <<envs, built, dicts, calls>>

\* r.is_success
IsSuccess ==
    \E j \in DOMAIN models :
        /\ ret' = Value("is_success", j, is_success(models[j]))
        /\ UNCHANGED <<envs, built, dicts, calls, models>>

\* r.is_error
IsError ==
    \E j \in DOMAIN models :
        /\ ret' = Value("is_error", j, is_error(models[j]))
        /\ UNCHANGED <<envs, built, dicts, calls, models>>

Next ==
    \/ ApiOk
    \/ ApiError
    \/ Direct
    \/ ToDict
    \/ AsDict
    \/ SetAttr
    \/ DictSetItem
    \/ DictDelItem

Spec == Init /\ [][Next]_vars

NextModel ==
    \/ ModelOk
    \/ ModelFail
    \/ ModelDirect
    \/ IsSuccess
    \/ IsError

SpecModel == Init /\ [][NextModel]_vars

----------------------------------------------------------------------------
\* Properties

\* The mapping a to_dict / asdict call has just returned, and its receiver
Returned == dicts[ret.val]

Receiver == envs[ret.self]

\* d.get(k): the value under k, None when the key is missing
Get(d, k) == IF k \in DOMAIN d THEN d[k] ELSE PyNone

\* Rebuild an envelope from a serialized mapping, missing keys taken as None
FromDict(m) == ApiResponseDC(m["success"], Get(m, "data"), Get(m, "error"))

\* C1: api_ok(v).to_dict() has success == True, never an error key, data == v
\* when v is not None, and is exactly {"success": True} when v is None.
C1_ApiOkToDict ==
    [][(ret.op = "api_ok" /\ ret'.op = "to_dict" /\ ret'.self = ret.val) =>
        LET v == ret.args[1]
            m == dicts'[ret'.val]
        IN  /\ "success" \in DOMAIN m
            /\ m["success"] = PyTrue
            /\ "error" \notin DOMAIN m
            /\ IF v /= PyNone
               THEN DOMAIN m = {"success", "data"} /\ m["data"] = v
               ELSE DOMAIN m = {"success"}]_vars

\* api_ok(None).to_dict() and api_ok({}).to_dict() have both been returned:
\* the first call after building the envelope is to_dict.
C1_Witness ==
    /\ ret.op = "to_dict"
    /\ calls = 1
    /\ built[ret.self] = "api_ok"
    /\ Receiver.data = PyDict("{}")
    /\ DOMAIN Returned = {"success", "data"}

\* C2: api_error(m).to_dict() is exactly {"success": False, "error": m}, also
\* for m == "".
C2_ApiErrorToDict ==
    [][(ret.op = "api_error" /\ ret'.op = "to_dict" /\ ret'.self = ret.val) =>
        LET msg == ret.args[1]
            m == dicts'[ret'.val]
        IN  /\ DOMAIN m = {"success", "error"}
            /\ m["success"] = PyFalse
            /\ m["error"] = msg]_vars

C2_Witness ==
    /\ ret.op = "to_dict"
    /\ calls = 1
    /\ built[ret.self] = "api_error"
    /\ Receiver.error = PyStr("")
    /\ "error" \in DOMAIN Returned
    /\ Returned["error"] = PyStr("")

\* C3: whatever way the envelope was built, the keys of to_dict() contain
\* success and lie within {success, data, error}, and the success value is the
\* stored flag.
C3_KeySet ==
    ret.op = "to_dict" =>
        /\ "success" \in DOMAIN Returned
        /\ DOMAIN Returned \subseteq {"success", "data", "error"}
        /\ Returned["success"] = Receiver.success

C3_Witness ==
    /\ ret.op = "to_dict"
    /\ built[ret.self] = "ApiResponseDC"
    /\ Receiver.success = PyFalse
    /\ DOMAIN Returned = {"success", "data", "error"}

\* C4 (as claimed): data is serialized iff the envelope was built by api_ok
\* and its data is not None; error iff built by api_error and its error is not
\* None.
C4_KeysFollowConstructor ==
    ret.op = "to_dict" =>
        /\ "data" \in DOMAIN Returned <=>
              (built[ret.self] = "api_ok" /\ Receiver.data /= PyNone)
        /\ "error" \in DOMAIN Returned <=>
              (built[ret.self] = "api_error" /\ Receiver.error /= PyNone)

\* C4 (amended): data is serialized iff the stored data is not None, and error
\* iff the stored error is not None, whichever way the envelope was built.
C4_KeysFollowFields ==
    ret.op = "to_dict" =>
        /\ "data" \in DOMAIN Returned <=> Receiver.data /= PyNone
        /\ "error" \in DOMAIN Returned <=> Receiver.error /= PyNone

C4_Witness ==
    /\ ret.op = "to_dict"
    /\ built[ret.self] = "ApiResponseDC"
    /\ Receiver.success = PyFalse
    /\ Receiver.data /= PyNone
    /\ "data" \in DOMAIN Returned
    /\ "error" \notin DOMAIN Returned

\* C5: once an ApiResponseDC is constructed, nothing a caller does to it
\* (to_dict, reading a field, assigning a field) changes success, data or error.
C5_FieldsFixed ==
    [][\A i \in DOMAIN envs : envs'[i] = envs[i]]_vars

\* C6: the constructor accepts every combination of success, data and error
\* without raising and stores them as given, and to_dict() emits every field
\* that is not None, whatever the success flag.
C6_DirectPermitted ==
    /\ ret.op = "ApiResponseDC" =>
          /\ ret.raised = ""
          /\ ret.val \in DOMAIN envs
          /\ envs[ret.val].success = ret.args[1]
          /\ envs[ret.val].data = ret.args[2]
          /\ envs[ret.val].error = ret.args[3]
    /\ ret.op = "to_dict" =>
          \A f \in {"data", "error"} :
              Receiver[f] /= PyNone =>
                  f \in DOMAIN Returned /\ Returned[f] = Receiver[f]

C6_Witness ==
    /\ ret.op = "to_dict"
    /\ calls = 1
    /\ built[ret.self] = "ApiResponseDC"
    /\ Receiver.success = PyTrue
    /\ Receiver.error = PyStr("Email is required")
    /\ "error" \in DOMAIN Returned

\* to_dict() has just returned m for e: the envelope rebuilt from m has e's
\* fields and serializes to m again
RoundTrip ==
    ret.op = "to_dict" =>
        /\ FromDict(Returned) = Receiver
        /\ to_dict(FromDict(Returned)) = Returned

\* C7: two successive to_dict() calls on an envelope return equal mappings,
\* and the envelope rebuilt from to_dict() (missing keys as None) has the same
\* fields and the same to_dict().
C7_IdempotentRoundTrip ==
    [][/\ RoundTrip'
       /\ (ret.op = "to_dict" /\ ret'.op = "to_dict" /\ ret'.self = ret.self
             /\ ret'.val /= ret.val)
          => dicts'[ret'.val] = dicts[ret.val]]_vars

\* Two to_dict() calls in a row on an envelope holding an empty container
C7_Witness ==
    /\ ret.op = "to_dict"
    /\ ret.val = 2
    /\ calls = 2
    /\ dicts[1] = dicts[2]
    /\ DOMAIN dicts[1] = {"success", "data"}
    /\ Receiver.data = PyDict("{}")
    /\ Receiver.error = PyNone

\* C8: to_dict() leaves the receiver's fields as they were and returns a new
\* mapping object; adding or removing keys of a returned mapping changes no
\* envelope and no other mapping, so a later to_dict() is not affected.
C8_ToDictFrame ==
    [][/\ (ret'.op = "to_dict" /\ vars' /= vars) =>
              /\ envs' = envs
              /\ ret'.val \notin DOMAIN dicts
              /\ \A d \in DOMAIN dicts : dicts'[d] = dicts[d]
              /\ DOMAIN dicts'[ret'.val] =
                    {"success"} \cup {f \in {"data", "error"} : envs[ret'.self][f] /= PyNone}
       /\ (ret'.op \in {"setitem", "delitem"} /\ vars' /= vars) =>
              /\ envs' = envs
              /\ \A d \in DOMAIN dicts : d /= ret'.self => dicts'[d] = dicts[d]]_vars

\* to_dict(), then a key added to the returned mapping, then to_dict() again
C8_Witness ==
    /\ ret.op = "to_dict"
    /\ ret.val = 2
    /\ calls = 3
    /\ DOMAIN dicts[1] = {"success", "data", "meta"}
    /\ DOMAIN dicts[2] = {"success", "data"}
    /\ Receiver.error = PyNone

\* C9: asdict(api_ok(v)) and asdict(api_error(m)) give the same mapping as
\* to_dict() on the same envelope.
C9_AsDictIsToDict ==
    (ret.op = "asdict" /\ built[ret.self] \in {"api_ok", "api_error"}) =>
        Returned = to_dict(Receiver)

\* C10: for every ApiResponse, is_success is (success == True), is_error is
\* (success == False) and exactly one of them is true; ok(v) has is_success and
\* fail(m) has is_error, whatever data and error hold.
C10_Predicates ==
    /\ \A j \in DOMAIN models :
          /\ (is_success(models[j]) = PyTrue) <=> (models[j].success = PyTrue)
          /\ (is_error(models[j]) = PyTrue) <=> (models[j].success = PyFalse)
          /\ (is_success(models[j]) = PyTrue) /= (is_error(models[j]) = PyTrue)
    /\ ret.op = "ApiResponse.ok" => is_success(models[ret.val]) = PyTrue
    /\ ret.op = "ApiResponse.fail" => is_error(models[ret.val]) = PyTrue
    /\ ret.op = "is_success" =>
          (ret.value = PyTrue <=> models[ret.self].success = PyTrue)
    /\ ret.op = "is_error" =>
          (ret.value = PyTrue <=> models[ret.self].success = PyFalse)

\* is_error read as True on a failure envelope that carries data
C10_Witness ==
    /\ ret.op = "is_error"
    /\ ret.value = PyTrue
    /\ models[ret.self].data /= PyNone
    /\ models[ret.self].error = PyNone

====
